---- MODULE Spec2Model ----
(***************************************************************************)
(* Model of hn-notify (src/src/index.ts): a Cloudflare Worker that polls   *)
(* the HN search API for keywords, sends one batch notification per poll   *)
(* cycle and keeps a keyword list and a watermark in a KV namespace.       *)
(*                                                                         *)
(* Strings are sequences of one-character strings, so that trim() and      *)
(* toLowerCase() are computed, not assumed.  JavaScript's undefined and    *)
(* null are the one-element sequences Undefined and Null, whose element is *)
(* not a character.                                                        *)
(***************************************************************************)
EXTENDS Integers, Sequences, FiniteSets, TLC

VARIABLES kv, NTFY_TOPIC, clock, items, cycle, req

vars == <<kv, NTFY_TOPIC, clock, items, cycle, req>>

----------------------------------------------------------------------------
(* Bounds of the model *)

\* clock value (Unix seconds) of the initial state
StartTime == 1000
\* number of seconds the clock may advance
MaxTicks == 1
\* number of items the search API ever holds
MaxItems == 2
\* largest batch handed to formatBatchNotification
MaxMatches == 12

\* concurrent invocations of handleScheduled / of the management API
Cycles == {1, 2}
Requests == {1, 2}

----------------------------------------------------------------------------
(* JavaScript values *)

Undefined == <<"undefined">>
Null == <<"null">>

Str(s) ==
  CASE s = "" -> <<>>
    [] s = " " -> <<" ">>
    [] s = "a" -> <<"a">>
    [] s = "A " -> <<"A", " ">>
    [] s = "b" -> <<"b">>
    [] s = " B " -> <<" ", "B", " ">>
    [] s = "x" -> <<"x">>
    [] s = " x " -> <<" ", "x", " ">>
    [] s = "y" -> <<"y">>
    [] s = "t" -> <<"t">>

\* !v for a string-or-undefined-or-null value
Falsy(v) == v = Undefined \/ v = Null \/ v = <<>>

IsWhiteSpace(ch) == ch = " "

LowerChar(ch) ==
  CASE ch = "A" -> "a"
    [] ch = "B" -> "b"
    [] OTHER -> ch

\* String.prototype.toLowerCase
ToLowerCase(s) == [i \in 1..Len(s) |-> LowerChar(s[i])]

RECURSIVE TrimStart(_)
TrimStart(s) ==
  IF s # <<>> /\ IsWhiteSpace(Head(s)) THEN TrimStart(Tail(s)) ELSE s

RECURSIVE TrimEnd(_)
TrimEnd(s) ==
  IF s # <<>> /\ IsWhiteSpace(s[Len(s)])
  THEN TrimEnd(SubSeq(s, 1, Len(s) - 1))
  ELSE s

\* String.prototype.trim
Trim(s) == TrimEnd(TrimStart(s))

\* decimal digits, for Number.prototype.toString and parseInt(_, 10)
Digit(d) ==
  CASE d = 0 -> "0" [] d = 1 -> "1" [] d = 2 -> "2" [] d = 3 -> "3"
    [] d = 4 -> "4" [] d = 5 -> "5" [] d = 6 -> "6" [] d = 7 -> "7"
    [] d = 8 -> "8" [] d = 9 -> "9"

DigitValue(ch) == CHOOSE d \in 0..9 : Digit(d) = ch

IsDigit(ch) == \E d \in 0..9 : Digit(d) = ch

RECURSIVE NatToString(_)
NatToString(n) ==
  IF n < 10 THEN <<Digit(n)>> ELSE Append(NatToString(n \div 10), Digit(n % 10))

\* timestamp.toString()
NumberToString(n) == IF n < 0 THEN <<"-">> \o NatToString(-n) ELSE NatToString(n)

RECURSIVE ParseDigits(_, _)
ParseDigits(s, acc) ==
  IF s = <<>> \/ ~IsDigit(Head(s))
  THEN acc
  ELSE ParseDigits(Tail(s), 10 * acc + DigitValue(Head(s)))

\* parseInt(data, 10) on the strings the worker stores (NaN does not arise:
\* every stored value is the toString of an integer)
ParseInt(s) ==
  LET t == TrimStart(s)
  IN  IF t # <<>> /\ Head(t) = "-" THEN -ParseDigits(Tail(t), 0) ELSE ParseDigits(t, 0)

----------------------------------------------------------------------------
(* KV namespace HN_KV: a function from the keys that are present to their  *)
(* values.  The value under KEYWORDS_KEY is a JSON array, kept as the      *)
(* sequence of its elements: a JSON string is [type |-> "string", ...], a  *)
(* JSON object [type |-> "object", ...] with the keys it has.              *)

KEYWORDS_KEY == "keywords"
LAST_CHECK_KEY == "last_check_timestamp"

RELEVANCE_THRESHOLD == 5      \* 0.5, scores are in tenths

EmptyKV == [key \in {} |-> <<>>]

KvPut(store, key, value) ==
  [k \in DOMAIN store \cup {key} |-> IF k = key THEN value ELSE store[k]]

JsonString(s) == [type |-> "string", keyword |-> s]

\* JSON.stringify of one KeywordConfig: a key whose value is undefined is
\* left out
JsonObject(k) ==
  IF k.context = Undefined
  THEN [type |-> "object", keyword |-> k.keyword]
  ELSE [type |-> "object", keyword |-> k.keyword, context |-> k.context]

\* JSON.stringify(keywords)
JsonStringify(keywords) == [i \in 1..Len(keywords) |-> JsonObject(keywords[i])]

\* the KeywordConfig read back from one parsed JSON object
ParsedObject(o) ==
  [keyword |-> o.keyword,
   context |-> IF "context" \in DOMAIN o THEN o.context ELSE Undefined]

GetKeywords(store) ==
  IF KEYWORDS_KEY \notin DOMAIN store
  THEN <<>>
  ELSE LET parsed == store[KEYWORDS_KEY]
       IN  IF Len(parsed) > 0 /\ parsed[1].type = "string"
           THEN [i \in 1..Len(parsed) |->
                   [keyword |-> parsed[i].keyword, context |-> Undefined]]
           ELSE [i \in 1..Len(parsed) |-> ParsedObject(parsed[i])]

\* keyword.trim() without toLowerCase()
NormalizeTrimOnly(keyword) == Trim(keyword)

\* keyword.trim().toLowerCase()
Normalize(keyword) == ToLowerCase(Trim(keyword))

\* context?.trim() || undefined
TrimmedContext(context) ==
  IF context = Undefined \/ context = Null
  THEN Undefined
  ELSE IF Falsy(Trim(context)) THEN Undefined ELSE Trim(context)

\* keywords.find((k) => k.keyword === normalized): index of the first match,
\* 0 when there is none
FindKeyword(keywords, normalized) ==
  IF \E i \in 1..Len(keywords) : keywords[i].keyword = normalized
  THEN CHOOSE i \in 1..Len(keywords) :
         /\ keywords[i].keyword = normalized
         /\ \A j \in 1..(i - 1) : keywords[j].keyword # normalized
  ELSE 0

\* keywords.filter(test), test given as the set of indices it keeps
RECURSIVE FilterSeq(_, _)
FilterSeq(s, keep) ==
  IF s = <<>>
  THEN <<>>
  ELSE LET rest == FilterSeq(SubSeq(s, 1, Len(s) - 1), keep)
       IN  IF Len(s) \in keep THEN Append(rest, s[Len(s)]) ELSE rest

\* keywords.filter((k) => k.keyword !== normalized)
RemoveKeywordList(keywords, normalized) ==
  FilterSeq(keywords, {i \in 1..Len(keywords) : keywords[i].keyword # normalized})

\* addKeyword taking the existing entry out and pushing the new one
AddKeywordListMoveToEnd(keywords, normalized, trimmedContext) ==
  Append(RemoveKeywordList(keywords, normalized),
         [keyword |-> normalized, context |-> trimmedContext])

\* the list addKeyword writes: existing.context = ... or keywords.push(...)
AddKeywordList(keywords, normalized, trimmedContext) ==
  LET existing == FindKeyword(keywords, normalized)
  IN  IF existing # 0
      THEN [keywords EXCEPT ![existing].context = trimmedContext]
      ELSE Append(keywords, [keyword |-> normalized, context |-> trimmedContext])

----------------------------------------------------------------------------
(* Management API: each request is one invocation of handleRequest.  An    *)
(* invocation that writes suspends between its kv.get and its kv.put.      *)

RawKeywords ==
  {Undefined, Str(""), Str(" "), Str("a"), Str("A "), Str("b"), Str(" B ")}

RawContexts == {Undefined, Str(" "), Str(" x "), Str("y")}

IdleRequest ==
  [pc |-> "idle", op |-> "none", normalized |-> Undefined,
   context |-> Undefined, keywords |-> <<>>, status |-> 0, error |-> "none"]

RequestFree(r) == req[r].pc = "idle"

\* addKeyword without the check of lines 89-91
PostKeywordsNoEmptyCheck(r, keyword, context) ==
  /\ RequestFree(r)
  /\ LET keywords == GetKeywords(kv)
     IN  IF keyword = Undefined
         THEN req' = [req EXCEPT ![r] =
                        [IdleRequest EXCEPT !.pc = "done", !.op = "add",
                                            !.status = 500, !.error = "TypeError"]]
         ELSE req' = [req EXCEPT ![r] =
                        [IdleRequest EXCEPT
                           !.pc = "put", !.op = "add",
                           !.normalized = Normalize(keyword),
                           !.context = TrimmedContext(context),
                           !.keywords = AddKeywordList(keywords, Normalize(keyword),
                                                       TrimmedContext(context))]]
  /\ UNCHANGED <<kv, NTFY_TOPIC, clock, items, cycle>>

\* POST /keywords up to the await of kv.put in addKeyword
PostKeywords(r, keyword, context) ==
  /\ RequestFree(r)
  /\ LET keywords == GetKeywords(kv)
     IN  IF keyword = Undefined
         THEN \* body.keyword missing: keyword.trim() throws a TypeError
              req' = [req EXCEPT ![r] =
                        [IdleRequest EXCEPT !.pc = "done", !.op = "add",
                                            !.status = 500, !.error = "TypeError"]]
         ELSE IF Falsy(Normalize(keyword))
         THEN req' = [req EXCEPT ![r] =
                        [IdleRequest EXCEPT !.pc = "done", !.op = "add",
                                            !.normalized = Normalize(keyword),
                                            !.status = 500,
                                            !.error = "Keyword cannot be empty"]]
         ELSE req' = [req EXCEPT ![r] =
                        [IdleRequest EXCEPT
                           !.pc = "put", !.op = "add",
                           !.normalized = Normalize(keyword),
                           !.context = TrimmedContext(context),
                           !.keywords = AddKeywordList(keywords, Normalize(keyword),
                                                       TrimmedContext(context))]]
  /\ UNCHANGED <<kv, NTFY_TOPIC, clock, items, cycle>>

\* removeKeyword filtering on the keyword as given, not normalized
DeleteKeywordsRaw(r, keyword) ==
  /\ RequestFree(r)
  /\ req' = [req EXCEPT ![r] =
               [IdleRequest EXCEPT
                  !.pc = "put", !.op = "remove",
                  !.normalized = keyword,
                  !.keywords = RemoveKeywordList(GetKeywords(kv), keyword)]]
  /\ UNCHANGED <<kv, NTFY_TOPIC, clock, items, cycle>>

\* DELETE /keywords/:keyword up to the await of kv.put in removeKeyword
DeleteKeywords(r, keyword) ==
  /\ RequestFree(r)
  /\ req' = [req EXCEPT ![r] =
               [IdleRequest EXCEPT
                  !.pc = "put", !.op = "remove",
                  !.normalized = Normalize(keyword),
                  !.keywords = RemoveKeywordList(GetKeywords(kv), Normalize(keyword))]]
  /\ UNCHANGED <<kv, NTFY_TOPIC, clock, items, cycle>>

\* the 200 response carrying the list, the kv.put left out
PutKeywordsDropped(r) ==
  /\ req[r].pc = "put"
  /\ req' = [req EXCEPT ![r].pc = "done", ![r].status = 200]
  /\ UNCHANGED <<kv, NTFY_TOPIC, clock, items, cycle>>

\* kv.put(KEYWORDS_KEY, JSON.stringify(...)) of addKeyword / removeKeyword,
\* and the 200 response carrying the list
PutKeywords(r) ==
  /\ req[r].pc = "put"
  /\ kv' = KvPut(kv, KEYWORDS_KEY, JsonStringify(req[r].keywords))
  /\ req' = [req EXCEPT ![r].pc = "done", ![r].status = 200]
  /\ UNCHANGED <<NTFY_TOPIC, clock, items, cycle>>

\* GET /keywords writing the decoded list back in the structured format
ListKeywordsRewrites(r) ==
  /\ RequestFree(r)
  /\ req' = [req EXCEPT ![r] =
               [IdleRequest EXCEPT !.pc = "done", !.op = "list", !.status = 200,
                                   !.keywords = GetKeywords(kv)]]
  /\ kv' = KvPut(kv, KEYWORDS_KEY, JsonStringify(GetKeywords(kv)))
  /\ UNCHANGED <<NTFY_TOPIC, clock, items, cycle>>

\* GET /keywords
ListKeywords(r) ==
  /\ RequestFree(r)
  /\ req' = [req EXCEPT ![r] =
               [IdleRequest EXCEPT !.pc = "done", !.op = "list", !.status = 200,
                                   !.keywords = GetKeywords(kv)]]
  /\ UNCHANGED <<kv, NTFY_TOPIC, clock, items, cycle>>

\* the response is sent and the invocation is over
EndRequest(r) ==
  /\ req[r].pc = "done"
  /\ req' = [req EXCEPT ![r] = IdleRequest]
  /\ UNCHANGED <<kv, NTFY_TOPIC, clock, items, cycle>>

----------------------------------------------------------------------------
(* The search API.  items[id] is the item with objectID id; ids are given  *)
(* in creation order.  matches is the set of queries the item matches.     *)

Keywords == {Str("a"), Str("b")}

HITS_PER_PAGE == 50

\* scores the reranker can return, in tenths (0.3, 0.5, 0.7)
Scores == {3, 5, 7}

\* the numeric filter with >= for >
CreatedAtOrAfter(item, sinceTimestamp) == item.created_at_i >= sinceTimestamp

\* line 41, numericFilters created_at_i>${sinceTimestamp}
CreatedAfter(item, sinceTimestamp) == item.created_at_i > sinceTimestamp

\* the hits of search_by_date: items created after sinceTimestamp that match
\* the query, newest first, at most hitsPerPage of them
RECURSIVE SearchResult(_, _, _)
SearchResult(query, sinceTimestamp, n) ==
  IF n = 0
  THEN <<>>
  ELSE LET older == SearchResult(query, sinceTimestamp, n - 1)
           all == IF CreatedAfter(items[n], sinceTimestamp) /\ query \in items[n].matches
                  THEN <<[objectID |-> n, created_at_i |-> items[n].created_at_i]>> \o older
                  ELSE older
       IN  SubSeq(all, 1, IF Len(all) < HITS_PER_PAGE THEN Len(all) ELSE HITS_PER_PAGE)

\* a new story or comment appears on HN
CreateItem(m) ==
  /\ Len(items) < MaxItems
  /\ items' = Append(items, [created_at_i |-> clock, matches |-> m])
  /\ UNCHANGED <<kv, NTFY_TOPIC, clock, cycle, req>>

\* Date.now() advances by one second
Tick ==
  /\ clock < StartTime + MaxTicks
  /\ clock' = clock + 1
  /\ UNCHANGED <<kv, NTFY_TOPIC, items, cycle, req>>

----------------------------------------------------------------------------
(* Notification text.  A hit of a batch carries the fields the formatting  *)
(* reads: title, story_title, comment_text, author.  "\n" is the newline   *)
(* character and Bullet stands for the character U+2022.                   *)

NewLine == "\n"
Bullet == "bullet"

\* matches.slice(0, 10) at line 174 and the test of line 179
BULLET_MAX == 10
\* itemTitle.substring(0, 60) at line 176
TITLE_MAX == 60
\* substring(0, 200) at line 188
BODY_MAX == 200

\* s.substring(0, end)
Substring(s, end) == SubSeq(s, 1, IF Len(s) < end THEN Len(s) ELSE end)

\* parts.join(sep)
RECURSIVE JoinWith(_, _)
JoinWith(parts, sep) ==
  IF parts = <<>>
  THEN <<>>
  ELSE IF Len(parts) = 1
  THEN parts[1]
  ELSE JoinWith(SubSeq(parts, 1, Len(parts) - 1), sep) \o sep \o parts[Len(parts)]

\* s.replace(/<[^>]*>/g, " ")
RECURSIVE StripTags(_)
StripTags(s) ==
  IF s = <<>>
  THEN <<>>
  ELSE IF Head(s) = "<" /\ \E j \in 2..Len(s) : s[j] = ">"
  THEN LET close == CHOOSE j \in 2..Len(s) :
                      s[j] = ">" /\ \A j2 \in 2..(j - 1) : s[j2] # ">"
       IN  <<" ">> \o StripTags(SubSeq(s, close + 1, Len(s)))
  ELSE <<Head(s)>> \o StripTags(Tail(s))

\* formatHitBody
FormatHitBody(hit) ==
  IF ~Falsy(hit.comment_text)
  THEN Substring(StripTags(hit.comment_text), BODY_MAX) \o <<".", ".", ".">>
  ELSE <<"b", "y", " ">> \o hit.author

\* hit.title || hit.story_title || "Comment"
ItemTitle(hit) ==
  IF ~Falsy(hit.title) THEN hit.title
  ELSE IF ~Falsy(hit.story_title) THEN hit.story_title
  ELSE <<"C", "o", "m", "m", "e", "n", "t">>

\* the Map keywordCounts of lines 165-168, as its entries in insertion order
RECURSIVE KeywordCounts(_)
KeywordCounts(matches) ==
  IF matches = <<>>
  THEN <<>>
  ELSE LET counts == KeywordCounts(SubSeq(matches, 1, Len(matches) - 1))
           keyword == matches[Len(matches)].keyword
       IN  IF \E e \in 1..Len(counts) : counts[e].kw = keyword
           THEN [e \in 1..Len(counts) |->
                   IF counts[e].kw = keyword
                   THEN [counts[e] EXCEPT !.count = @ + 1]
                   ELSE counts[e]]
           ELSE Append(counts, [kw |-> keyword, count |-> 1])

\* line 169: `${kw}(${count})` per entry
SummaryParts(matches) ==
  LET counts == KeywordCounts(matches)
  IN  [e \in 1..Len(counts) |->
         counts[e].kw \o <<"(">> \o NumberToString(counts[e].count) \o <<")">>]

\* the loop of line 174 going over all matches
ShownMatchesAll(matches) == matches

\* matches.slice(0, 10)
ShownMatches(matches) ==
  SubSeq(matches, 1, IF Len(matches) < BULLET_MAX THEN Len(matches) ELSE BULLET_MAX)

\* line 176
BulletLine(match) ==
  <<Bullet, " ", "[">> \o match.keyword \o <<"]", " ">>
    \o Substring(ItemTitle(match.hit), TITLE_MAX)

\* line 180
MoreLine(n) ==
  <<".", ".", ".", " ", "a", "n", "d", " ">> \o NumberToString(n - BULLET_MAX)
    \o <<" ", "m", "o", "r", "e">>

\* formatBatchNotification
FormatBatchNotification(matches) ==
  IF Len(matches) = 0
  THEN [title |-> <<"H", "N", " ", "A", "l", "e", "r", "t">>,
        body |-> <<"N", "o", " ", "m", "a", "t", "c", "h", "e", "s">>]
  ELSE IF Len(matches) = 1
  THEN [title |-> <<"[">> \o matches[1].keyword \o <<"]", " ">>
                    \o ItemTitle(matches[1].hit),
        body |-> FormatHitBody(matches[1].hit)]
  ELSE LET shown == ShownMatches(matches)
           lines == <<JoinWith(SummaryParts(matches), <<",", " ">>), <<>>>>
                      \o [k \in 1..Len(shown) |-> BulletLine(shown[k])]
                      \o (IF Len(matches) > BULLET_MAX
                          THEN <<MoreLine(Len(matches))>>
                          ELSE <<>>)
       IN  [title |-> <<"H", "N", " ", "A", "l", "e", "r", "t", ":", " ">>
                        \o NumberToString(Len(matches))
                        \o <<" ", "m", "a", "t", "c", "h", "e", "s">>,
            body |-> JoinWith(lines, <<NewLine>>)]

----------------------------------------------------------------------------
(* Poll cycle: one invocation of handleScheduled, by the cron trigger or   *)
(* by POST /trigger.  searches, scorerCalls and notifications are the      *)
(* calls the invocation has made to the search API, the reranker and the   *)
(* notification endpoint; scorerErrors counts the errors logged at line    *)
(* 233.                                                                    *)

IdleCycle ==
  [pc |-> "idle", keywordConfigs |-> <<>>, lastCheck |-> 0, now |-> 0,
   seenIds |-> {}, matches |-> <<>>, filteredCount |-> 0, i |-> 0,
   hits |-> <<>>, searches |-> <<>>, scorerCalls |-> 0, scorerErrors |-> 0,
   notifications |-> <<>>]

CycleFree(c) == cycle[c].pc = "idle"

CycleEnded(c) == cycle[c].pc \in {"done", "skipped", "failed"}

\* getLastCheckTimestamp with the default taken 15 minutes ahead of the clock
GetLastCheckTimestampAhead(store) ==
  IF LAST_CHECK_KEY \notin DOMAIN store \/ Falsy(store[LAST_CHECK_KEY])
  THEN clock + 15 * 60
  ELSE ParseInt(store[LAST_CHECK_KEY])

\* getLastCheckTimestamp
GetLastCheckTimestamp(store) ==
  IF LAST_CHECK_KEY \notin DOMAIN store \/ Falsy(store[LAST_CHECK_KEY])
  THEN clock - 15 * 60
  ELSE ParseInt(store[LAST_CHECK_KEY])

\* setLastCheckTimestamp
SetLastCheckTimestamp(store, timestamp) ==
  KvPut(store, LAST_CHECK_KEY, NumberToString(timestamp))

\* lines 194-204 without the check of NTFY_TOPIC
LoadKeywordsAnyTopic(c) ==
  /\ CycleFree(c)
  /\ LET keywordConfigs == GetKeywords(kv)
     IN  cycle' = [cycle EXCEPT ![c] =
                     [IdleCycle EXCEPT
                        !.keywordConfigs = keywordConfigs,
                        !.pc = IF Len(keywordConfigs) = 0
                               THEN "skipped" ELSE "loaded"]]
  /\ UNCHANGED <<kv, NTFY_TOPIC, clock, items, req>>

\* handleScheduled, lines 194-204: read the keyword list, return early when
\* it is empty or NTFY_TOPIC is not set
LoadKeywords(c) ==
  /\ CycleFree(c)
  /\ LET keywordConfigs == GetKeywords(kv)
     IN  cycle' = [cycle EXCEPT ![c] =
                     [IdleCycle EXCEPT
                        !.keywordConfigs = keywordConfigs,
                        !.pc = IF Len(keywordConfigs) = 0 \/ Falsy(NTFY_TOPIC)
                               THEN "skipped" ELSE "loaded"]]
  /\ UNCHANGED <<kv, NTFY_TOPIC, clock, items, req>>

\* lines 206-213 taking the first-run default whatever is stored
ReadWatermarkDefault(c) ==
  /\ cycle[c].pc = "loaded"
  /\ cycle' = [cycle EXCEPT ![c].lastCheck = GetLastCheckTimestamp(EmptyKV),
                            ![c].now = clock,
                            ![c].i = 1,
                            ![c].pc = "scanning"]
  /\ UNCHANGED <<kv, NTFY_TOPIC, clock, items, req>>

\* lines 206-213: read the watermark, sample the clock, enter the loop
ReadWatermark(c) ==
  /\ cycle[c].pc = "loaded"
  /\ cycle' = [cycle EXCEPT ![c].lastCheck = GetLastCheckTimestamp(kv),
                            ![c].now = clock,
                            ![c].i = 1,
                            ![c].pc = "scanning"]
  /\ UNCHANGED <<kv, NTFY_TOPIC, clock, items, req>>

\* where the loop over keywordConfigs goes after keyword i
AfterKeyword(c) ==
  IF cycle[c].i < Len(cycle[c].keywordConfigs) THEN "scanning" ELSE "batched"

\* line 217 reading the watermark again for each search
SearchSucceedsRereads(c) ==
  /\ cycle[c].pc = "scanning"
  /\ LET keyword == cycle[c].keywordConfigs[cycle[c].i].keyword
         since == GetLastCheckTimestamp(kv)
         hits == SearchResult(keyword, since, Len(items))
         call == [query |-> keyword, since |-> since, ok |-> TRUE, hits |-> hits]
     IN  cycle' = [cycle EXCEPT
                     ![c].searches = Append(@, call),
                     ![c].hits = hits,
                     ![c].i = IF hits = <<>> THEN @ + 1 ELSE @,
                     ![c].pc = IF hits = <<>> THEN AfterKeyword(c) ELSE "hits"]
  /\ UNCHANGED <<kv, NTFY_TOPIC, clock, items, req>>

\* line 217, searchHN returns the hits
SearchSucceeds(c) ==
  /\ cycle[c].pc = "scanning"
  /\ LET keyword == cycle[c].keywordConfigs[cycle[c].i].keyword
         hits == SearchResult(keyword, cycle[c].lastCheck, Len(items))
         call == [query |-> keyword, since |-> cycle[c].lastCheck, ok |-> TRUE,
                  hits |-> hits]
     IN  cycle' = [cycle EXCEPT
                     ![c].searches = Append(@, call),
                     ![c].hits = hits,
                     ![c].i = IF hits = <<>> THEN @ + 1 ELSE @,
                     ![c].pc = IF hits = <<>> THEN AfterKeyword(c) ELSE "hits"]
  /\ UNCHANGED <<kv, NTFY_TOPIC, clock, items, req>>

\* line 217 without the try/catch of lines 216 and 240-242: the error of
\* searchHN ends the cycle
SearchFailsAborts(c) ==
  /\ cycle[c].pc = "scanning"
  /\ LET keyword == cycle[c].keywordConfigs[cycle[c].i].keyword
         call == [query |-> keyword, since |-> cycle[c].lastCheck, ok |-> FALSE,
                  hits |-> <<>>]
     IN  cycle' = [cycle EXCEPT
                     ![c].searches = Append(@, call),
                     ![c].pc = "failed"]
  /\ UNCHANGED <<kv, NTFY_TOPIC, clock, items, req>>

\* line 217, searchHN throws (non-ok response or fetch error); lines 240-242
SearchFails(c) ==
  /\ cycle[c].pc = "scanning"
  /\ LET keyword == cycle[c].keywordConfigs[cycle[c].i].keyword
         call == [query |-> keyword, since |-> cycle[c].lastCheck, ok |-> FALSE,
                  hits |-> <<>>]
     IN  cycle' = [cycle EXCEPT
                     ![c].searches = Append(@, call),
                     ![c].i = @ + 1,
                     ![c].pc = AfterKeyword(c)]
  /\ UNCHANGED <<kv, NTFY_TOPIC, clock, items, req>>

\* what checkRelevance does for one hit: "empty" returns 0 without calling
\* the reranker, "score" returns the reranker's score, "noscore" is a
\* response without a score (0), "throw" is ai.run failing
RelevanceOutcomes ==
  {[kind |-> "empty", score |-> 0], [kind |-> "noscore", score |-> 0],
   [kind |-> "throw", score |-> 0]}
  \cup {[kind |-> "score", score |-> s] : s \in Scores}

\* line 220 without the dedupe set
AlreadySeenNever(c, hit) == FALSE

\* line 220: seenIds.has(hit.objectID)
AlreadySeen(c, hit) == hit.objectID \in cycle[c].seenIds

\* line 226 with <= for <
BelowOrAtThreshold(score) == score <= RELEVANCE_THRESHOLD

\* line 226: score < RELEVANCE_THRESHOLD
BelowThreshold(score) == score < RELEVANCE_THRESHOLD

\* lines 225-234 with the error of checkRelevance excluding the hit
RejectsOrThrows(outcome) == BelowThreshold(outcome.score)

\* lines 225-234: the hit is dropped when checkRelevance returns a score
\* below the threshold; when it throws, the catch lets the hit through
Rejects(outcome) == outcome.kind # "throw" /\ BelowThreshold(outcome.score)

\* lines 219-239, one iteration of the loop over hits; outcome is what
\* checkRelevance does if it is called
ProcessHit(c, outcome) ==
  /\ cycle[c].pc = "hits"
  /\ LET keyword == cycle[c].keywordConfigs[cycle[c].i].keyword
         context == cycle[c].keywordConfigs[cycle[c].i].context
         hit == Head(cycle[c].hits)
         rest == Tail(cycle[c].hits)
         seen == AlreadySeen(c, hit)
         scored == ~seen /\ ~Falsy(context)
         filtered == scored /\ Rejects(outcome)
         pushed == ~seen /\ ~filtered
     IN  /\ ~scored => outcome.kind = "empty"
         /\ cycle' = [cycle EXCEPT
               ![c].seenIds = @ \cup {hit.objectID},
               ![c].scorerCalls = IF scored /\ outcome.kind # "empty" THEN @ + 1 ELSE @,
               ![c].scorerErrors = IF scored /\ outcome.kind = "throw" THEN @ + 1 ELSE @,
               ![c].filteredCount = IF filtered THEN @ + 1 ELSE @,
               ![c].matches = IF pushed
                              THEN Append(@, [keyword |-> keyword, hit |-> hit])
                              ELSE @,
               ![c].hits = rest,
               ![c].i = IF rest = <<>> THEN @ + 1 ELSE @,
               ![c].pc = IF rest = <<>> THEN AfterKeyword(c) ELSE "hits"]
  /\ UNCHANGED <<kv, NTFY_TOPIC, clock, items, req>>

\* lines 245-250 sending one notification per match, not one batch
SendNotificationPerMatch(c, ok) ==
  /\ cycle[c].pc = "batched"
  /\ Len(cycle[c].matches) > 0
  /\ cycle' = [cycle EXCEPT
        ![c].notifications =
           [k \in 1..Len(cycle[c].matches) |->
              [matches |-> <<cycle[c].matches[k]>>,
               id |-> cycle[c].matches[k].hit.objectID]],
        ![c].pc = IF ok THEN "notified" ELSE "failed"]
  /\ UNCHANGED <<kv, NTFY_TOPIC, clock, items, req>>

\* lines 245-250: the batch notification; ok is whether the fetch of
\* sendNotification resolves (it throws on a network error, and then
\* handleScheduled rejects)
SendNotification(c, ok) ==
  /\ cycle[c].pc = "batched"
  /\ Len(cycle[c].matches) > 0
  /\ cycle' = [cycle EXCEPT
        ![c].notifications =
           Append(@, [matches |-> cycle[c].matches,
                      id |-> cycle[c].matches[1].hit.objectID]),
        ![c].pc = IF ok THEN "notified" ELSE "failed"]
  /\ UNCHANGED <<kv, NTFY_TOPIC, clock, items, req>>

\* line 246: title and body of a notification that was sent
NotificationText(notification) == FormatBatchNotification(notification.matches)

\* lines 252-253 persisting lastCheck in place of now
PersistLastCheck(c) ==
  /\ \/ cycle[c].pc = "notified"
     \/ cycle[c].pc = "batched" /\ Len(cycle[c].matches) = 0
  /\ kv' = SetLastCheckTimestamp(kv, cycle[c].lastCheck)
  /\ cycle' = [cycle EXCEPT ![c].pc = "done"]
  /\ UNCHANGED <<NTFY_TOPIC, clock, items, req>>

\* the watermark persisted as soon as the scan is over, before the send
PersistWatermarkEarly(c) ==
  /\ cycle[c].pc \in {"batched", "notified"}
  /\ kv' = SetLastCheckTimestamp(kv, cycle[c].now)
  /\ cycle' = [cycle EXCEPT ![c].pc = IF cycle[c].pc = "batched" /\ Len(cycle[c].matches) > 0
                                      THEN "batched" ELSE "done"]
  /\ UNCHANGED <<NTFY_TOPIC, clock, items, req>>

\* lines 252-253: persist now as the watermark
PersistWatermark(c) ==
  /\ \/ cycle[c].pc = "notified"
     \/ cycle[c].pc = "batched" /\ Len(cycle[c].matches) = 0
  /\ kv' = SetLastCheckTimestamp(kv, cycle[c].now)
  /\ cycle' = [cycle EXCEPT ![c].pc = "done"]
  /\ UNCHANGED <<NTFY_TOPIC, clock, items, req>>

\* the promise of handleScheduled settles and the invocation is over
EndCycle(c) ==
  /\ CycleEnded(c)
  /\ cycle' = [cycle EXCEPT ![c] = IdleCycle]
  /\ UNCHANGED <<kv, NTFY_TOPIC, clock, items, req>>

----------------------------------------------------------------------------
(* Specifications *)

KeywordConfig(keyword, context) == [keyword |-> keyword, context |-> context]

\* contents of the KV namespace when the worker starts to run: nothing, a
\* list written by addKeyword, or a list of plain strings written by the
\* version of the worker that had no contexts
InitialStores ==
  {EmptyKV,
   KvPut(EmptyKV, KEYWORDS_KEY, <<JsonString(Str("b")), JsonString(Str("a"))>>)}
  \cup {KvPut(EmptyKV, KEYWORDS_KEY, JsonStringify(l)) :
          l \in {<<KeywordConfig(Str("a"), Str("x")), KeywordConfig(Str("b"), Undefined)>>,
                 <<KeywordConfig(Str("a"), Undefined), KeywordConfig(Str("b"), Str("y"))>>}}

Init ==
  /\ kv \in InitialStores
  /\ NTFY_TOPIC \in {Str(""), Str("t")}
  /\ clock = StartTime
  /\ items = <<>>
  /\ cycle = [c \in Cycles |-> IdleCycle]
  /\ req = [r \in Requests |-> IdleRequest]

\* a fresh deployment: nothing stored yet
InitStore ==
  /\ Init
  /\ kv = EmptyKV
  /\ NTFY_TOPIC = Str("t")

Environment ==
  \/ Tick
  \/ \E m \in (SUBSET Keywords) \ {{}} : CreateItem(m)

CycleStep(c) ==
  \/ ReadWatermark(c)
  \/ SearchSucceeds(c)
  \/ SearchFails(c)
  \/ \E outcome \in RelevanceOutcomes : ProcessHit(c, outcome)
  \/ \E ok \in BOOLEAN : SendNotification(c, ok)
  \/ PersistWatermark(c)
  \/ EndCycle(c)

\* a poll cycle starts while no other one is running
LoadKeywordsAlone(c) ==
  /\ \A d \in Cycles : CycleFree(d)
  /\ LoadKeywords(c)

\* poll cycles run one after another
Next ==
  \/ Environment
  \/ \E c \in Cycles : LoadKeywordsAlone(c)
  \/ \E c \in Cycles : CycleStep(c)

Spec == Init /\ [][Next]_vars

\* poll cycles may overlap (a manual trigger during a scheduled run)
NextOverlap ==
  \/ Tick
  \/ CreateItem({Str("a")})
  \/ \E c \in Cycles : LoadKeywords(c)
  \/ \E c \in Cycles : CycleStep(c)

\* for the overlapping cycles: two keywords without context, topic set
InitOverlap ==
  /\ Init
  /\ NTFY_TOPIC = Str("t")
  /\ GetKeywords(kv) = <<KeywordConfig(Str("b"), Undefined), KeywordConfig(Str("a"), Undefined)>>

SpecOverlap == InitOverlap /\ [][NextOverlap]_vars

\* a poll cycle starts after the other invocations have ended; what an
\* ended invocation did stays on record until EndCycle
LoadKeywordsAfter(c) ==
  /\ \A d \in Cycles \ {c} : CycleFree(d) \/ CycleEnded(d)
  /\ LoadKeywords(c)

\* poll cycles run one after another, the record of the earlier one kept
NextSeq ==
  \/ Tick
  \/ CreateItem({Str("a")})
  \/ \E c \in Cycles : LoadKeywordsAfter(c)
  \/ \E c \in Cycles : CycleStep(c)

SpecSeq == InitOverlap /\ [][NextSeq]_vars

\* a management request starts while no other one is in flight
PostKeywordsAlone(r, keyword, context) ==
  /\ \A q \in Requests : RequestFree(q)
  /\ PostKeywords(r, keyword, context)

DeleteKeywordsAlone(r, keyword) ==
  /\ \A q \in Requests : RequestFree(q)
  /\ DeleteKeywords(r, keyword)

\* management requests, one after another
NextStoreSeq ==
  \/ \E r \in Requests, keyword \in RawKeywords, context \in RawContexts :
        PostKeywordsAlone(r, keyword, context)
  \/ \E r \in Requests, keyword \in RawKeywords \ {Undefined} :
        DeleteKeywordsAlone(r, keyword)
  \/ \E r \in Requests : PutKeywords(r)
  \/ \E r \in Requests : ListKeywords(r)
  \/ \E r \in Requests : EndRequest(r)

SpecStoreSeq == InitStore /\ [][NextStoreSeq]_vars

\* a deployment that may hold a list written by an earlier version
InitMigrate ==
  /\ Init
  /\ NTFY_TOPIC = Str("t")

\* management requests, one after another, on any initial store
SpecMigrate == InitMigrate /\ [][NextStoreSeq]_vars

\* management requests that overlap
NextStore ==
  \/ \E r \in Requests, keyword \in RawKeywords, context \in RawContexts :
        PostKeywords(r, keyword, context)
  \/ \E r \in Requests, keyword \in RawKeywords \ {Undefined} :
        DeleteKeywords(r, keyword)
  \/ \E r \in Requests : PutKeywords(r)
  \/ \E r \in Requests : ListKeywords(r)
  \/ \E r \in Requests : EndRequest(r)

SpecStore == InitStore /\ [][NextStore]_vars

\* hits as the search API returns them, with the fields the notification
\* text is made of: kind 0 is a story, 1 a comment on a story, 2 a comment
\* without story title, 3 a story whose title is longer than TITLE_MAX
FormatHit(id, kind) ==
  [objectID |-> id, created_at_i |-> StartTime, author |-> <<"u">>,
   title |-> CASE kind = 0 -> <<"T">> \o NatToString(id)
               [] kind = 3 -> NatToString(id) \o [k \in 1..(TITLE_MAX + 1) |-> "z"]
               [] OTHER -> Undefined,
   story_title |-> IF kind = 1 THEN <<"S">> \o NatToString(id) ELSE Undefined,
   comment_text |-> IF kind \in {1, 2} THEN <<"<", "p", ">", "c">> ELSE Undefined]

\* a batch of n matches: pattern 1 has every match for "a", pattern 2
\* alternates "a" and "b", pattern 3 has "b" first and "a" after it
FormatBatch(n, pattern, offset) ==
  [k \in 1..n |->
     [keyword |-> CASE pattern = 1 -> Str("a")
                    [] pattern = 2 -> IF k % 2 = 1 THEN Str("a") ELSE Str("b")
                    [] OTHER -> IF k = 1 THEN Str("b") ELSE Str("a"),
      hit |-> FormatHit(k, (k + offset) % 4)]]

\* a poll cycle whose scan is over, holding a batch of up to MaxMatches
InitFormat ==
  /\ kv = KvPut(EmptyKV, KEYWORDS_KEY,
                <<JsonString(Str("a")), JsonString(Str("b"))>>)
  /\ NTFY_TOPIC = Str("t")
  /\ clock = StartTime
  /\ items = <<>>
  /\ req = [r \in Requests |-> IdleRequest]
  /\ \E n \in 0..MaxMatches, pattern \in 1..3, offset \in 0..3 :
       cycle = [c \in Cycles |->
                  IF c = 1
                  THEN [IdleCycle EXCEPT
                          !.pc = "batched",
                          !.keywordConfigs = GetKeywords(kv),
                          !.lastCheck = StartTime - 15 * 60,
                          !.now = StartTime,
                          !.i = 3,
                          !.seenIds = 1..n,
                          !.matches = FormatBatch(n, pattern, offset)]
                  ELSE IdleCycle]

\* lines 245-254 on that batch
NextFormat ==
  \/ \E c \in Cycles, ok \in BOOLEAN : SendNotification(c, ok)
  \/ \E c \in Cycles : PersistWatermark(c)
  \/ \E c \in Cycles : EndCycle(c)

SpecFormat == InitFormat /\ [][NextFormat]_vars

\* two management requests, one per invocation, that may overlap, on any
\* initial store
NextRace ==
  \/ \E r \in Requests, keyword \in RawKeywords, context \in RawContexts :
        PostKeywords(r, keyword, context)
  \/ \E r \in Requests, keyword \in RawKeywords \ {Undefined} :
        DeleteKeywords(r, keyword)
  \/ \E r \in Requests : PutKeywords(r)
  \/ \E r \in Requests : ListKeywords(r)

SpecRace == InitMigrate /\ [][NextRace]_vars

\* poll cycles that may overlap, and a management request that removes
\* the first keyword or adds it again while they run
NextConcurrent ==
  \/ CreateItem({Str("a")})
  \/ \E c \in Cycles : LoadKeywords(c)
  \/ \E c \in Cycles : CycleStep(c)
  \/ DeleteKeywords(1, Str("b"))
  \/ PostKeywords(1, Str("b"), Undefined)
  \/ PutKeywords(1)
  \/ EndRequest(1)

SpecConcurrent == InitOverlap /\ [][NextConcurrent]_vars

----------------------------------------------------------------------------
(* Properties *)

\* the persisted watermark as a number
Watermark(store) == ParseInt(store[LAST_CHECK_KEY])

HasWatermark(store) == LAST_CHECK_KEY \in DOMAIN store

\* C1, as claimed: the persisted watermark never decreases; every write of
\* the watermark stores a value greater than or equal to the value stored
\* immediately before the write, also when poll cycles overlap.
C1_WatermarkNeverDecreases ==
  [][HasWatermark(kv) => HasWatermark(kv') /\ Watermark(kv') >= Watermark(kv)]_vars

\* C1, amended: every write of the watermark by a poll cycle stores a value
\* greater than or equal to the watermark that cycle read at its start, so
\* the write does not decrease the watermark when the value stored
\* immediately before it is still the value the cycle read (no other cycle
\* wrote in between, as when cycles run one after another).
C1_WriteNotBelowRead ==
  [][\A c \in Cycles :
       PersistWatermark(c) =>
         /\ Watermark(kv') >= cycle[c].lastCheck
         /\ (HasWatermark(kv) /\ Watermark(kv) = cycle[c].lastCheck)
              => Watermark(kv') >= Watermark(kv)]_vars

\* a cycle that read a stored watermark has written a larger one
C1_Witness ==
  \E c \in Cycles :
    /\ cycle[c].pc = "done"
    /\ cycle[c].lastCheck >= StartTime
    /\ HasWatermark(kv)
    /\ Watermark(kv) = cycle[c].now
    /\ cycle[c].now > cycle[c].lastCheck

\* C2: when a poll cycle that ran alone (non-empty keyword list, topic set,
\* send succeeded if there was one) finishes, the persisted watermark equals
\* the time the cycle sampled at its start, whatever the number of matches;
\* on the first run the searches used now - 900 as since-timestamp.
C2_WatermarkIsStartTime ==
  \A c \in Cycles :
    /\ cycle[c].pc = "done" =>
         /\ HasWatermark(kv)
         /\ Watermark(kv) = cycle[c].now
         /\ Len(cycle[c].keywordConfigs) > 0
    /\ (cycle[c].pc \in {"scanning", "hits", "batched", "notified", "done", "failed"}
          /\ cycle[c].lastCheck < StartTime) =>
         /\ cycle[c].lastCheck = cycle[c].now - 900
         /\ \A j \in 1..Len(cycle[c].searches) :
               cycle[c].searches[j].since = cycle[c].now - 900

\* a first run with several matches has finished
C2_Witness ==
  \E c \in Cycles :
    /\ cycle[c].pc = "done"
    /\ cycle[c].lastCheck = cycle[c].now - 900
    /\ Len(cycle[c].matches) >= 2
    /\ Len(cycle[c].notifications) = 1
    /\ Watermark(kv) = cycle[c].now

\* the loop over the keywords is over
ScanFinished(c) == cycle[c].pc \in {"batched", "notified", "done", "failed"}

\* the ids the search for keyword j of cycle c returned
ReturnedBy(c, j) ==
  {cycle[c].searches[j].hits[n].objectID : n \in 1..Len(cycle[c].searches[j].hits)}

\* the keywords, by position, whose search returned id
KeywordsReturning(c, id) ==
  {j \in 1..Len(cycle[c].searches) : id \in ReturnedBy(c, j)}

FirstReturning(c, id) ==
  CHOOSE j \in KeywordsReturning(c, id) : \A j2 \in KeywordsReturning(c, id) : j <= j2

\* the positions in the batch of the MatchedHits for id
MatchesOf(c, id) ==
  {k \in 1..Len(cycle[c].matches) : cycle[c].matches[k].hit.objectID = id}

\* C3, as claimed: for every hit id returned by the searches of two or more
\* keywords the batch holds exactly one MatchedHit, attributed to the first
\* keyword in list order whose search returned the id, for all keyword
\* lists (with and without relevance contexts).
C3_ExactlyOneForFirstKeyword ==
  \A c \in Cycles :
    ScanFinished(c) =>
      \A id \in 1..Len(items) :
        Cardinality(KeywordsReturning(c, id)) >= 2 =>
          /\ Cardinality(MatchesOf(c, id)) = 1
          /\ \A k \in MatchesOf(c, id) :
               cycle[c].matches[k].keyword =
                 cycle[c].keywordConfigs[FirstReturning(c, id)].keyword

\* C3, amended: for every hit id returned by the searches of two or more
\* keywords the batch holds at most one MatchedHit; if it holds one, its
\* keyword is the first keyword in list order whose search returned the id;
\* it holds exactly one when that first keyword has no relevance context,
\* and it can hold none only when that first keyword has a context and hits
\* were filtered (the id is marked seen before it is scored, so no later
\* keyword can claim it).
C3_AtMostOneForFirstKeyword ==
  \A c \in Cycles :
    ScanFinished(c) =>
      \A id \in 1..Len(items) :
        Cardinality(KeywordsReturning(c, id)) >= 2 =>
          LET first == cycle[c].keywordConfigs[FirstReturning(c, id)]
          IN  /\ Cardinality(MatchesOf(c, id)) <= 1
              /\ \A k \in MatchesOf(c, id) : cycle[c].matches[k].keyword = first.keyword
              /\ Falsy(first.context) => Cardinality(MatchesOf(c, id)) = 1
              /\ MatchesOf(c, id) = {} =>
                   ~Falsy(first.context) /\ cycle[c].filteredCount >= 1

\* an id returned for both keywords, the first of which has a context, is in
\* the batch once, for the first keyword
C3_Witness ==
  \E c \in Cycles :
    /\ ScanFinished(c)
    /\ \E id \in 1..Len(items) :
         /\ KeywordsReturning(c, id) = {1, 2}
         /\ ~Falsy(cycle[c].keywordConfigs[1].context)
         /\ Cardinality(MatchesOf(c, id)) = 1
         /\ \A k \in MatchesOf(c, id) :
              cycle[c].matches[k].keyword = cycle[c].keywordConfigs[1].keyword

\* the searches of cycle c that failed / succeeded, by keyword position
FailedSearches(c) == {j \in 1..Len(cycle[c].searches) : ~cycle[c].searches[j].ok}

SucceededSearches(c) == {j \in 1..Len(cycle[c].searches) : cycle[c].searches[j].ok}

\* some searches of the cycle failed and some succeeded
MixedSearches(c) == FailedSearches(c) # {} /\ SucceededSearches(c) # {}

\* the batch holds the matches of the keywords whose search succeeded: every
\* hit such a keyword returned, unless the keyword has a context (then the
\* score decides) or an earlier keyword returned the same id (dedupe)
BatchHoldsSucceeded(c) ==
  \A j \in SucceededSearches(c) :
    \A n \in 1..Len(cycle[c].searches[j].hits) :
      LET hit == cycle[c].searches[j].hits[n]
      IN  (/\ Falsy(cycle[c].keywordConfigs[j].context)
           /\ \A j2 \in 1..(j - 1) : hit.objectID \notin ReturnedBy(c, j2))
          => \E k \in 1..Len(cycle[c].matches) :
               cycle[c].matches[k] =
                 [keyword |-> cycle[c].keywordConfigs[j].keyword, hit |-> hit]

\* the one notification of the cycle carries the whole batch
BatchNotified(c) ==
  cycle[c].notifications =
    <<[matches |-> cycle[c].matches, id |-> cycle[c].matches[1].hit.objectID]>>

\* C4, as claimed: a cycle in which some searches fail and others succeed
\* does not abort; every keyword is searched, the batch holds the matches of
\* the keywords whose search succeeded, the notification is sent and the
\* cycle ends with the watermark advanced to its now.
C4_FailedSearchIsolated ==
  \A c \in Cycles :
    /\ (ScanFinished(c) /\ FailedSearches(c) # {}) =>
         /\ Len(cycle[c].searches) = Len(cycle[c].keywordConfigs)
         /\ BatchHoldsSucceeded(c)
    /\ (CycleEnded(c) /\ MixedSearches(c)) =>
         /\ cycle[c].pc = "done"
         /\ Len(cycle[c].matches) > 0 => BatchNotified(c)
         /\ HasWatermark(kv) /\ Watermark(kv) = cycle[c].now

\* what the code does in such a cycle: as claimed when the notification send
\* does not throw; the only way the cycle ends without advancing the
\* watermark is that the send itself throws, after the notifier was called
\* with the batch.
C4_FailedSearchIsolatedUnlessSendThrows ==
  \A c \in Cycles :
    /\ (ScanFinished(c) /\ FailedSearches(c) # {}) =>
         /\ Len(cycle[c].searches) = Len(cycle[c].keywordConfigs)
         /\ BatchHoldsSucceeded(c)
    /\ (CycleEnded(c) /\ MixedSearches(c)) =>
         /\ cycle[c].pc \in {"done", "failed"}
         /\ Len(cycle[c].matches) > 0 => BatchNotified(c)
         /\ cycle[c].pc = "done" => HasWatermark(kv) /\ Watermark(kv) = cycle[c].now
         /\ cycle[c].pc = "failed" => Len(cycle[c].matches) > 0

\* the first search failed, the second one's match was notified and the
\* watermark advanced
C4_Witness ==
  \E c \in Cycles :
    /\ cycle[c].pc = "done"
    /\ FailedSearches(c) = {1}
    /\ SucceededSearches(c) = {2}
    /\ Len(cycle[c].matches) > 0
    /\ BatchNotified(c)
    /\ Watermark(kv) = cycle[c].now

\* C5: the notifier is called if and only if the batch is not empty, at most
\* once per cycle, with the whole batch.
C5_OneNotificationIffMatches ==
  \A c \in Cycles :
    /\ Len(cycle[c].notifications) <= 1
    /\ cycle[c].pc \notin {"notified", "done", "failed"} => cycle[c].notifications = <<>>
    /\ cycle[c].pc \in {"notified", "done", "failed"} =>
         IF Len(cycle[c].matches) = 0
         THEN cycle[c].notifications = <<>>
         ELSE /\ Len(cycle[c].notifications) = 1
              /\ cycle[c].notifications[1].matches = cycle[c].matches

\* one call for a batch of several matches
C5_Witness ==
  \E c \in Cycles :
    /\ cycle[c].pc = "done"
    /\ Len(cycle[c].matches) >= 2
    /\ Len(cycle[c].notifications) = 1

\* C6: an unseen hit of a keyword with context is added to the batch if and
\* only if the score is at least 0.5 (5 tenths); a hit below is counted as
\* filtered and the loop goes on; a keyword without context makes no scorer
\* call and all its unseen hits are added.
C6_ThresholdFilter ==
  [][\A c \in Cycles, outcome \in RelevanceOutcomes :
       ProcessHit(c, outcome) =>
         LET config == cycle[c].keywordConfigs[cycle[c].i]
             hit == Head(cycle[c].hits)
             unseen == hit.objectID \notin cycle[c].seenIds
             added == cycle'[c].matches =
                        Append(cycle[c].matches, [keyword |-> config.keyword, hit |-> hit])
         IN  /\ (unseen /\ ~Falsy(config.context) /\ outcome.kind = "score") =>
                  /\ added <=> outcome.score >= 5
                  /\ outcome.score = 3 => ~added
                  /\ outcome.score \in {5, 7} => added
                  /\ ~added => /\ cycle'[c].matches = cycle[c].matches
                               /\ cycle'[c].filteredCount = cycle[c].filteredCount + 1
                  /\ added => cycle'[c].filteredCount = cycle[c].filteredCount
             /\ cycle'[c].pc \in {"hits", "scanning", "batched"}
             /\ cycle'[c].hits = Tail(cycle[c].hits)
             /\ Falsy(config.context) =>
                  /\ cycle'[c].scorerCalls = cycle[c].scorerCalls
                  /\ unseen => added]_vars

\* one hit of a keyword with context was filtered, another one passed
C6_Witness ==
  \E c \in Cycles :
    /\ cycle[c].filteredCount = 1
    /\ cycle[c].scorerCalls = 2
    /\ Len(cycle[c].matches) = 1
    /\ ~Falsy(cycle[c].keywordConfigs[1].context)
    /\ cycle[c].matches[1].keyword = cycle[c].keywordConfigs[1].keyword

\* C7: a cycle that finds the keyword list empty or NTFY_TOPIC not set makes
\* no search, scorer or notification call and leaves the KV namespace as it
\* is: the watermark is not advanced, an unset watermark stays unset.
C7_SkippedCycleIsNoOp ==
  [][\A c \in Cycles :
       /\ (LoadKeywords(c) /\ (Len(GetKeywords(kv)) = 0 \/ Falsy(NTFY_TOPIC))) =>
            /\ cycle'[c].pc = "skipped"
            /\ kv' = kv
       /\ cycle[c].pc = "skipped" =>
            /\ cycle[c].searches = <<>>
            /\ cycle[c].scorerCalls = 0
            /\ cycle[c].notifications = <<>>
            /\ kv' = kv
            /\ cycle'[c].pc \in {"skipped", "idle"}]_vars

\* a cycle with keywords but no topic has returned, the watermark is unset
C7_Witness ==
  \E c \in Cycles :
    /\ cycle[c].pc = "skipped"
    /\ Len(cycle[c].keywordConfigs) > 0
    /\ Falsy(NTFY_TOPIC)
    /\ ~HasWatermark(kv)

\* the keywords of list l
KeywordsOf(l) == {l[i].keyword : i \in 1..Len(l)}

\* new is old with the entry of keyword k given context ctx in place, or,
\* when old has no entry for k, with the entry {k, ctx} appended
Upserted(old, k, ctx, new) ==
  IF k \in KeywordsOf(old)
  THEN /\ Len(new) = Len(old)
       /\ \A i \in 1..Len(old) :
            /\ new[i].keyword = old[i].keyword
            /\ new[i].context = IF old[i].keyword = k THEN ctx ELSE old[i].context
  ELSE new = Append(old, [keyword |-> k, context |-> ctx])

\* the context an add stores: absent when blank or omitted, else the
\* context given, without surrounding whitespace
GivenContext(context) ==
  IF context = Undefined THEN Undefined
  ELSE IF \A i \in 1..Len(context) : context[i] = " " THEN Undefined
  ELSE Trim(context)

\* C8: add(keyword, context) with k the trimmed, lowercased keyword
\* (non-empty) is an upsert in place: the persisted and returned list is the
\* previous list with only the context of k replaced (same length, same
\* order), or with {k, context} appended when k was not stored; k has
\* exactly one entry afterwards.
C8_AddIsUpsertInPlace ==
  [][/\ \A r \in Requests, keyword \in RawKeywords \ {Undefined}, context \in RawContexts :
          (PostKeywords(r, keyword, context) /\ ToLowerCase(Trim(keyword)) # <<>>) =>
            /\ req'[r].pc = "put"
            /\ req'[r].normalized = ToLowerCase(Trim(keyword))
            /\ Upserted(GetKeywords(kv), ToLowerCase(Trim(keyword)),
                        GivenContext(context), req'[r].keywords)
            /\ Cardinality({i \in 1..Len(req'[r].keywords) :
                              req'[r].keywords[i].keyword = ToLowerCase(Trim(keyword))}) = 1
     /\ \A r \in Requests :
          (PutKeywords(r) /\ req[r].op = "add") =>
            /\ Upserted(GetKeywords(kv), req[r].normalized, req[r].context,
                        GetKeywords(kv'))
            /\ GetKeywords(kv') = req[r].keywords
            /\ req'[r].keywords = req[r].keywords
            /\ req'[r].status = 200]_vars

\* an add has replaced the context of the first of two entries in place
C8_Witness ==
  \E r \in Requests :
    /\ req[r].pc = "done"
    /\ req[r].op = "add"
    /\ req[r].status = 200
    /\ Len(req[r].keywords) = 2
    /\ req[r].keywords[1] = [keyword |-> req[r].normalized, context |-> Str("y")]
    /\ GetKeywords(kv) = req[r].keywords

\* the JSON array stored under KEYWORDS_KEY
StoredKeywords == IF KEYWORDS_KEY \in DOMAIN kv THEN kv[KEYWORDS_KEY] ELSE <<>>

\* C9: starting from an absent keyword list, after any adds and removes,
\* overlapping ones included, no two entries of the persisted list have the
\* same keyword after trim and lowercase, and every stored keyword is
\* non-empty and already trimmed and lowercased.
C9_KeywordsUnique ==
  /\ \A i \in 1..Len(StoredKeywords) :
       /\ StoredKeywords[i].keyword # <<>>
       /\ ToLowerCase(Trim(StoredKeywords[i].keyword)) = StoredKeywords[i].keyword
  /\ \A i, j \in 1..Len(StoredKeywords) :
       i # j => ToLowerCase(Trim(StoredKeywords[i].keyword))
                  # ToLowerCase(Trim(StoredKeywords[j].keyword))

\* two entries are stored while two requests are between their read and
\* their write
C9_Witness ==
  /\ Len(StoredKeywords) = 2
  /\ \A r \in Requests : req[r].pc = "put"
  /\ \E r \in Requests : req[r].op = "add"
  /\ \E r \in Requests : req[r].op = "remove"

\* new is old without its entry number i
WithoutEntry(old, i, new) ==
  new = SubSeq(old, 1, i - 1) \o SubSeq(old, i + 1, Len(old))

\* C10: remove(keyword) raises no error; when the normalized keyword is not
\* stored the returned and the persisted list are the stored list unchanged;
\* when it is stored exactly that entry is removed and the others keep their
\* order; the keyword is not in the list afterwards, so that a second
\* remove of the same keyword leaves the store as the first one left it.
C10_RemoveIsIdempotent ==
  [][/\ \A r \in Requests, keyword \in RawKeywords \ {Undefined} :
          DeleteKeywords(r, keyword) =>
            LET old == GetKeywords(kv)
                k == ToLowerCase(Trim(keyword))
                new == req'[r].keywords
            IN  /\ req'[r].pc = "put"
                /\ k \notin KeywordsOf(old) => new = old
                /\ k \in KeywordsOf(old) =>
                     \E i \in 1..Len(old) : old[i].keyword = k /\ WithoutEntry(old, i, new)
                /\ k \notin KeywordsOf(new)
     /\ \A r \in Requests :
          (PutKeywords(r) /\ req[r].op = "remove") =>
            /\ GetKeywords(kv') = req[r].keywords
            /\ req'[r].keywords = req[r].keywords
            /\ req'[r].status = 200
            /\ req[r].normalized \notin KeywordsOf(GetKeywords(kv))
                 => GetKeywords(kv') = GetKeywords(kv)]_vars

\* a remove has returned a list of one entry with a context, which is the
\* persisted list
C10_Witness ==
  \E r \in Requests :
    /\ req[r].pc = "done"
    /\ req[r].op = "remove"
    /\ req[r].status = 200
    /\ req[r].normalized = Str("b")
    /\ req[r].keywords = <<[keyword |-> Str("a"), context |-> Str("x")]>>
    /\ GetKeywords(kv) = req[r].keywords

\* the stored JSON array is a non-empty array of plain strings
IsLegacy(store) ==
  /\ KEYWORDS_KEY \in DOMAIN store
  /\ Len(store[KEYWORDS_KEY]) > 0
  /\ \A i \in 1..Len(store[KEYWORDS_KEY]) : store[KEYWORDS_KEY][i].type = "string"

\* the stored JSON array is an array of {keyword, context?} objects
IsStructured(store) ==
  /\ KEYWORDS_KEY \in DOMAIN store
  /\ \A i \in 1..Len(store[KEYWORDS_KEY]) : store[KEYWORDS_KEY][i].type = "object"

\* list l is what a stored value decodes to: nothing for an absent value,
\* {keyword, context absent} per string of a legacy value, the stored
\* entries of a structured value
DecodedFrom(store, l) ==
  IF KEYWORDS_KEY \notin DOMAIN store
  THEN l = <<>>
  ELSE LET stored == store[KEYWORDS_KEY]
       IN  /\ Len(l) = Len(stored)
           /\ \A i \in 1..Len(stored) :
                /\ l[i].keyword = stored[i].keyword
                /\ l[i].context =
                     IF stored[i].type = "object" /\ "context" \in DOMAIN stored[i]
                     THEN stored[i].context
                     ELSE Undefined

\* C11: list() returns the empty sequence for an absent value, one entry
\* per string (same order, context absent) for a legacy value and the stored
\* entries for a structured value, and writes nothing; a legacy value stays
\* as it is until an add or a remove writes, and every such write persists
\* the structured format.
C11_ListDecodesWithoutWriting ==
  [][/\ \A r \in Requests :
          ListKeywords(r) =>
            /\ kv' = kv
            /\ req'[r].status = 200
            /\ DecodedFrom(kv, req'[r].keywords)
            /\ KEYWORDS_KEY \notin DOMAIN kv => req'[r].keywords = <<>>
            /\ IsLegacy(kv) =>
                 \A i \in 1..Len(req'[r].keywords) :
                   req'[r].keywords[i] =
                     [keyword |-> kv[KEYWORDS_KEY][i].keyword, context |-> Undefined]
     /\ (IsLegacy(kv) /\ kv' # kv) =>
          \E r \in Requests : req[r].pc = "put" /\ req[r].op \in {"add", "remove"}
                              /\ req'[r].pc = "done"
     /\ \A r \in Requests : PutKeywords(r) => IsStructured(kv')]_vars

\* a list request has returned the two entries of a legacy value, which is
\* still stored as plain strings
C11_Witness ==
  \E r \in Requests :
    /\ req[r].pc = "done"
    /\ req[r].op = "list"
    /\ IsLegacy(kv)
    /\ req[r].keywords = <<[keyword |-> Str("b"), context |-> Undefined],
                           [keyword |-> Str("a"), context |-> Undefined]>>

\* the keywords a caller can give that are empty after trim and lowercase
EmptyKeywords == {k \in RawKeywords \ {Undefined} : ToLowerCase(Trim(k)) = <<>>}

\* C12: add with a keyword that is empty after trimming and lowercasing
\* fails with an error, returns no list and writes nothing: the persisted
\* keyword list is exactly as before the call, whatever the store held.
C12_EmptyKeywordRejected ==
  [][/\ \A r \in Requests, keyword \in EmptyKeywords, context \in RawContexts :
          PostKeywords(r, keyword, context) =>
            /\ kv' = kv
            /\ req'[r].pc = "done"
            /\ req'[r].status # 200
            /\ req'[r].error = "Keyword cannot be empty"
            /\ req'[r].keywords = <<>>
     /\ \A r \in Requests :
          (req[r].op = "add" /\ req[r].error # "none") =>
            /\ kv' = kv
            /\ req'[r].pc \in {"done", "idle"}]_vars

\* an add of a blank keyword has failed on a store that holds two entries
C12_Witness ==
  \E r \in Requests :
    /\ req[r].pc = "done"
    /\ req[r].op = "add"
    /\ req[r].error = "Keyword cannot be empty"
    /\ req[r].normalized = <<>>
    /\ Len(GetKeywords(kv)) = 2

\* the lines of a text
RECURSIVE SplitLines(_)
SplitLines(s) ==
  IF \E j \in 1..Len(s) : s[j] = NewLine
  THEN LET j == CHOOSE j \in 1..Len(s) :
                  s[j] = NewLine /\ \A j2 \in 1..(j - 1) : s[j2] # NewLine
       IN  <<SubSeq(s, 1, j - 1)>> \o SplitLines(SubSeq(s, j + 1, Len(s)))
  ELSE <<s>>

\* the sum of the numbers a summary line gives in parentheses
RECURSIVE SumCounts(_)
SumCounts(s) ==
  IF s = <<>>
  THEN 0
  ELSE IF Head(s) = "("
  THEN ParseDigits(Tail(s), 0) + SumCounts(Tail(s))
  ELSE SumCounts(Tail(s))

StartsWith(s, prefix) ==
  Len(s) >= Len(prefix) /\ SubSeq(s, 1, Len(prefix)) = prefix

\* the title shown for a hit: its title, else its story title, else Comment
ShownTitle(hit) ==
  IF hit.title \notin {Undefined, <<>>} THEN hit.title
  ELSE IF hit.story_title \notin {Undefined, <<>>} THEN hit.story_title
  ELSE <<"C", "o", "m", "m", "e", "n", "t">>

\* line is the bullet line of match m
IsBulletFor(line, m) ==
  LET prefix == <<Bullet, " ", "[">> \o m.keyword \o <<"]", " ">>
      rest == SubSeq(line, Len(prefix) + 1, Len(line))
  IN  /\ StartsWith(line, prefix)
      /\ Len(rest) <= 60
      /\ StartsWith(ShownTitle(m.hit), rest)
      /\ Len(rest) < 60 => rest = ShownTitle(m.hit)

AndMore == <<".", ".", ".", " ", "a", "n", "d", " ">>

\* C13: for one match the title of the notification is `[<keyword>] <item
\* title or "Comment">`; for N >= 2 matches it is `HN Alert: <N> matches`
\* and the body is a summary line whose counts sum to N, then min(N, 10)
\* bullet lines for the first min(N, 10) matches in batch order, then a
\* line `... and <N-10> more` if and only if N > 10.
C13_BatchNotificationSizedFromN ==
  \A c \in Cycles :
    \A k \in 1..Len(cycle[c].notifications) :
      LET ms == cycle[c].notifications[k].matches
          N == Len(ms)
          text == NotificationText(cycle[c].notifications[k])
          lines == SplitLines(text.body)
          bullets == IF N < 10 THEN N ELSE 10
      IN  /\ N >= 1
          /\ N = 1 =>
               text.title = <<"[">> \o ms[1].keyword \o <<"]", " ">> \o ShownTitle(ms[1].hit)
          /\ N >= 2 =>
               /\ text.title = <<"H", "N", " ", "A", "l", "e", "r", "t", ":", " ">>
                                 \o NatToString(N)
                                 \o <<" ", "m", "a", "t", "c", "h", "e", "s">>
               /\ SumCounts(lines[1]) = N
               /\ lines[2] = <<>>
               /\ Len(lines) = 2 + bullets + (IF N > 10 THEN 1 ELSE 0)
               /\ \A b \in 1..bullets : IsBulletFor(lines[2 + b], ms[b])
               /\ N > 10 =>
                    lines[Len(lines)] = AndMore \o NatToString(N - 10)
                                          \o <<" ", "m", "o", "r", "e">>
               /\ N <= 10 => \A l \in 1..Len(lines) : ~StartsWith(lines[l], AndMore)

\* a notification for twelve matches was sent: ten bullets and
\* `... and 2 more`
C13_Witness ==
  \E c \in Cycles :
    /\ cycle[c].pc = "done"
    /\ Len(cycle[c].notifications) = 1
    /\ Len(cycle[c].notifications[1].matches) = 12
    /\ LET lines == SplitLines(NotificationText(cycle[c].notifications[1]).body)
       IN  /\ Len(lines) = 13
           /\ lines[13] = <<".", ".", ".", " ", "a", "n", "d", " ", "2",
                            " ", "m", "o", "r", "e">>

\* the cycle got past the checks of the keyword list and of NTFY_TOPIC
PastChecks(c) == cycle[c].pc \notin {"idle", "skipped"}

\* C14: every poll cycle that got past the empty-keyword-list and
\* unconfigured-destination checks has persisted its now as the watermark
\* when it ends, also when the notification send itself fails.
C14_WatermarkWriteUnconditional ==
  \A c \in Cycles :
    (CycleEnded(c) /\ PastChecks(c)) =>
      /\ HasWatermark(kv)
      /\ Watermark(kv) = cycle[c].now

\* cycle c is between its start and its end; when the other invocation is
\* on record as ended, it ended before c started
Running(c) == ~CycleFree(c) /\ ~CycleEnded(c)

\* the items matching keyword k created in the interval (t0, t1]
CreatedIn(k, t0, t1) ==
  {id \in 1..Len(items) :
     /\ k \in items[id].matches
     /\ items[id].created_at_i > t0
     /\ items[id].created_at_i <= t1}

\* C15: if in a completed cycle with watermark T0 and start time Tnow the
\* search for keyword k fails, every search for k of a later sequential
\* cycle uses a since-timestamp >= Tnow, and no item matching k created in
\* (T0, Tnow] is returned to a later cycle or notified by it for k.
C15_FailedWindowLost ==
  \A c \in Cycles, d \in Cycles :
    (c # d /\ cycle[c].pc = "done" /\ Running(d)) =>
      \A j \in FailedSearches(c) :
        LET k == cycle[c].searches[j].query
            lost == CreatedIn(k, cycle[c].lastCheck, cycle[c].now)
        IN  /\ \A n \in 1..Len(cycle[d].searches) :
                 cycle[d].searches[n].query = k =>
                   /\ cycle[d].searches[n].since >= cycle[c].now
                   /\ \A h \in 1..Len(cycle[d].searches[n].hits) :
                        cycle[d].searches[n].hits[h].objectID \notin lost
            /\ \A m \in 1..Len(cycle[d].matches) :
                 cycle[d].matches[m].keyword = k =>
                   cycle[d].matches[m].hit.objectID \notin lost
            /\ \A n \in 1..Len(cycle[d].notifications) :
                 \A m \in 1..Len(cycle[d].notifications[n].matches) :
                   cycle[d].notifications[n].matches[m].keyword = k =>
                     cycle[d].notifications[n].matches[m].hit.objectID \notin lost

\* the search for a keyword failed in a completed cycle while an item
\* matching it was in the window; a later cycle searched for the keyword
\* with success, found a newer item and sent its notification
C15_Witness ==
  \E c \in Cycles, d \in Cycles :
    /\ c # d
    /\ cycle[c].pc = "done"
    /\ cycle[d].pc = "notified"
    /\ cycle[d].lastCheck = cycle[c].now
    /\ \E j \in FailedSearches(c) :
         /\ CreatedIn(cycle[c].searches[j].query, cycle[c].lastCheck, cycle[c].now) # {}
         /\ \E n \in SucceededSearches(d) :
              /\ cycle[d].searches[n].query = cycle[c].searches[j].query
              /\ cycle[d].searches[n].hits # <<>>

Thrown == [kind |-> "throw", score |-> 0]

\* C16: when the scorer call for a hit of a keyword with context throws,
\* the hit is added to the batch as if it had passed and is not counted as
\* filtered, no search is recorded as failed, and the loop goes on with the
\* remaining hits of the keyword and with the later keywords, all of which
\* are searched before the scan is over.
C16_ScorerFailsOpen ==
  [][\A c \in Cycles :
       /\ (ProcessHit(c, Thrown) /\ cycle'[c].scorerErrors > cycle[c].scorerErrors) =>
            LET config == cycle[c].keywordConfigs[cycle[c].i]
                hit == Head(cycle[c].hits)
                rest == Tail(cycle[c].hits)
            IN  /\ config.context \notin {Undefined, <<>>}
                /\ cycle'[c].matches =
                     Append(cycle[c].matches, [keyword |-> config.keyword, hit |-> hit])
                /\ cycle'[c].filteredCount = cycle[c].filteredCount
                /\ cycle'[c].searches = cycle[c].searches
                /\ cycle'[c].hits = rest
                /\ rest # <<>> => cycle'[c].pc = "hits" /\ cycle'[c].i = cycle[c].i
                /\ rest = <<>> =>
                     /\ cycle'[c].i = cycle[c].i + 1
                     /\ cycle'[c].pc = IF cycle[c].i < Len(cycle[c].keywordConfigs)
                                       THEN "scanning" ELSE "batched"
       /\ cycle'[c].pc \in {"batched", "notified", "done", "failed"} =>
            /\ Len(cycle'[c].searches) = Len(cycle'[c].keywordConfigs)
            /\ cycle'[c].hits = <<>>
            /\ Len(cycle'[c].matches) >= cycle'[c].scorerErrors]_vars

\* the scorer threw for a hit of the first keyword; the hit is in the batch,
\* nothing was filtered, no search failed and the second keyword was
\* searched
C16_Witness ==
  \E c \in Cycles :
    /\ cycle[c].pc = "done"
    /\ cycle[c].scorerErrors = 1
    /\ cycle[c].scorerCalls = 1
    /\ cycle[c].filteredCount = 0
    /\ ~Falsy(cycle[c].keywordConfigs[1].context)
    /\ cycle[c].matches[1].keyword = cycle[c].keywordConfigs[1].keyword
    /\ FailedSearches(c) = {}
    /\ Len(cycle[c].searches) = 2

\* the ids in the batch cycle c has handed to the notifier
NotifiedIds(c) ==
  {id \in 1..Len(items) :
     \E n \in 1..Len(cycle[c].notifications) :
       \E m \in 1..Len(cycle[c].notifications[n].matches) :
         cycle[c].notifications[n].matches[m].hit.objectID = id}

\* the cycle has sent its notification, if it had one to send
Completed(c) == cycle[c].pc \in {"notified", "done"}

\* C17, as claimed: over a fixed keyword list, with searches returning items
\* created strictly after their since-timestamp and items created while a
\* cycle runs, no hit id is in the notification batch of more than one of
\* the non-overlapping completed cycles.
C17_NoItemNotifiedTwice ==
  \A c \in Cycles, d \in Cycles :
    (c # d /\ Completed(c) /\ Completed(d)) =>
      NotifiedIds(c) \cap NotifiedIds(d) = {}

\* C17, amended: no item created at or before the Tnow of a completed cycle
\* is in the batch of a later cycle, so an id is in the batches of two
\* cycles only if the item was created after the earlier cycle sampled its
\* Tnow (and before that cycle's search ran).
C17_NotNotifiedAgainUnlessCreatedAfterTnow ==
  \A c \in Cycles, d \in Cycles :
    (c # d /\ cycle[c].pc = "done" /\ Running(d)) =>
      /\ \A m \in 1..Len(cycle[d].matches) :
           cycle[d].matches[m].hit.created_at_i > cycle[c].now
      /\ \A id \in NotifiedIds(d) : items[id].created_at_i > cycle[c].now
      /\ \A id \in NotifiedIds(c) :
           items[id].created_at_i <= cycle[c].now =>
             /\ id \notin NotifiedIds(d)
             /\ \A m \in 1..Len(cycle[d].matches) :
                  cycle[d].matches[m].hit.objectID # id

\* a completed cycle notified an item created before its Tnow; the next
\* cycle has notified a newer item and not that one
C17_Witness ==
  \E c \in Cycles, d \in Cycles :
    /\ c # d
    /\ cycle[c].pc = "done"
    /\ cycle[d].pc = "notified"
    /\ cycle[d].lastCheck = cycle[c].now
    /\ \E id \in NotifiedIds(c) :
         /\ items[id].created_at_i <= cycle[c].now
         /\ id \notin NotifiedIds(d)
    /\ NotifiedIds(d) # {}

\* request r has returned a list with status 200 after an add or a remove
Returned(r) ==
  req[r].pc = "done" /\ req[r].status = 200 /\ req[r].op \in {"add", "remove"}

\* the mutation of request r is in list l: its keyword is there after an
\* add, not there after a remove
MutationIn(r, l) ==
  IF req[r].op = "add"
  THEN req[r].normalized \in KeywordsOf(l)
  ELSE req[r].normalized \notin KeywordsOf(l)

\* C18, as claimed: once two requests on distinct normalized keywords, an
\* add and an add or an add and a remove, each a read of the list followed
\* later by a write of the full list, have both returned successfully, the
\* persisted list has both mutations, however the two were interleaved.
C18_NoLostUpdate ==
  \A r \in Requests, q \in Requests :
    (/\ r # q
     /\ Returned(r) /\ Returned(q)
     /\ req[r].op = "add"
     /\ req[r].normalized # req[q].normalized) =>
      /\ MutationIn(r, GetKeywords(kv))
      /\ MutationIn(q, GetKeywords(kv))

\* C18, amended: the persisted list is the list of the request that wrote
\* last, which has that request's own mutation; it has the other request's
\* mutation when the last writer read the list after the other had written.
C18_LastWriterWins ==
  [][/\ \A q \in Requests :
          PutKeywords(q) =>
            /\ GetKeywords(kv') = req[q].keywords
            /\ MutationIn(q, GetKeywords(kv'))
     /\ \A q \in Requests, r \in Requests :
          (/\ r # q
           /\ Returned(r)
           /\ req[q].pc = "idle" /\ req'[q].pc = "put"
           /\ req'[q].normalized # req[r].normalized) =>
            /\ MutationIn(r, req'[q].keywords)
            /\ req'[q].op = "add" => req'[q].normalized \in KeywordsOf(req'[q].keywords)
            /\ req'[q].op = "remove" => req'[q].normalized \notin KeywordsOf(req'[q].keywords)
     /\ (\A r \in Requests : Returned(r)') =>
          \E r \in Requests : GetKeywords(kv') = req'[r].keywords]_vars

\* add(a) and add(b) have both returned and both keywords are stored: the
\* second request read after the first had written
C18_Witness ==
  \E r \in Requests, q \in Requests :
    /\ r # q
    /\ Returned(r) /\ Returned(q)
    /\ req[r].op = "add" /\ req[q].op = "add"
    /\ req[r].normalized = Str("a") /\ req[q].normalized = Str("b")
    /\ GetKeywords(kv) = req[q].keywords
    /\ Str("a") \in KeywordsOf(GetKeywords(kv))
    /\ Len(req[r].keywords) < Len(req[q].keywords)

\* the phases of a poll cycle in their order: Idle, Loaded, Scanning,
\* Batched (the batch is complete, then sent), Persisted and Done; a cycle
\* that returned early or threw has ended
PhaseRank(pc) ==
  CASE pc = "idle" -> 0
    [] pc = "loaded" -> 1
    [] pc \in {"scanning", "hits"} -> 2
    [] pc = "batched" -> 3
    [] pc = "notified" -> 4
    [] pc \in {"done", "skipped", "failed"} -> 5

\* C19: a poll cycle goes through its phases in order and re-enters none;
\* the keyword list is read before the watermark, the searches and scorer
\* calls are made before the notification send, the send before the
\* watermark write, and the watermark is written at most once, as the last
\* store operation of the cycle.
C19_PhaseOrder ==
  [][/\ \A c \in Cycles :
          LET from == cycle[c].pc
              to == cycle'[c].pc
          IN  IF to = "idle" /\ from # "idle"
              THEN CycleEnded(c) /\ kv' = kv
              ELSE /\ PhaseRank(to) >= PhaseRank(from)
                   /\ (from = "idle" /\ to # "idle") =>
                        /\ cycle'[c].keywordConfigs = GetKeywords(kv)
                        /\ cycle'[c].lastCheck = IdleCycle.lastCheck
                        /\ kv' = kv
                   /\ cycle'[c].lastCheck # cycle[c].lastCheck =>
                        /\ from = "loaded" /\ to = "scanning"
                        /\ cycle'[c].lastCheck = GetLastCheckTimestamp(kv)
                        /\ cycle'[c].keywordConfigs = cycle[c].keywordConfigs
                        /\ Len(cycle[c].keywordConfigs) > 0
                   /\ (\/ cycle'[c].searches # cycle[c].searches
                       \/ cycle'[c].scorerCalls # cycle[c].scorerCalls) =>
                        /\ from \in {"scanning", "hits"}
                        /\ cycle[c].notifications = <<>>
                        /\ cycle'[c].notifications = <<>>
                        /\ kv' = kv
                   /\ cycle'[c].notifications # cycle[c].notifications =>
                        /\ from = "batched" /\ to \in {"notified", "failed"}
                        /\ cycle[c].notifications = <<>>
                        /\ Len(cycle'[c].notifications) = 1
                        /\ kv' = kv
                   /\ from = "done" => kv' = kv
     /\ kv' # kv =>
          \E c \in Cycles :
            /\ cycle[c].pc \in {"batched", "notified"}
            /\ cycle'[c].pc = "done"
            /\ cycle[c].pc = "batched" => cycle[c].matches = <<>>
            /\ cycle[c].pc = "notified" => Len(cycle[c].notifications) = 1
            /\ kv' = KvPut(kv, LAST_CHECK_KEY, NatToString(cycle[c].now))
            /\ cycle'[c].searches = cycle[c].searches
            /\ cycle'[c].scorerCalls = cycle[c].scorerCalls
            /\ cycle'[c].notifications = cycle[c].notifications]_vars

\* a cycle has searched, scored, sent its notification and then written
\* the watermark
C19_Witness ==
  \E c \in Cycles :
    /\ cycle[c].pc = "done"
    /\ Len(cycle[c].searches) = 2
    /\ cycle[c].scorerCalls >= 1
    /\ Len(cycle[c].notifications) = 1
    /\ HasWatermark(kv)
    /\ Watermark(kv) = cycle[c].now

\* C20: the searches of a poll cycle are issued one at a time, one per
\* keyword entry, in the order of the keyword list read at the start of the
\* cycle, each with the watermark read once at the start as
\* since-timestamp, also when another invocation changes the persisted
\* watermark or keyword list while the cycle runs.
C20_SearchesInListOrderWithT0 ==
  [][\A c \in Cycles :
       cycle'[c].pc # "idle" =>
         /\ cycle[c].pc # "idle" => cycle'[c].keywordConfigs = cycle[c].keywordConfigs
         /\ cycle[c].pc \notin {"idle", "loaded"} => cycle'[c].lastCheck = cycle[c].lastCheck
         /\ (cycle[c].pc = "loaded" /\ cycle'[c].pc # "loaded") =>
              cycle'[c].lastCheck = GetLastCheckTimestamp(kv)
         /\ cycle'[c].searches # cycle[c].searches =>
              LET n == Len(cycle[c].searches) + 1
              IN  /\ cycle[c].pc = "scanning"
                  /\ cycle[c].hits = <<>>
                  /\ Len(cycle'[c].searches) = n
                  /\ SubSeq(cycle'[c].searches, 1, n - 1) = cycle[c].searches
                  /\ n <= Len(cycle[c].keywordConfigs)
                  /\ cycle'[c].searches[n].query = cycle[c].keywordConfigs[n].keyword
                  /\ cycle'[c].searches[n].since = cycle[c].lastCheck
         /\ \A n \in 1..Len(cycle'[c].searches) :
              cycle'[c].searches[n].since = cycle'[c].lastCheck
         /\ cycle'[c].pc \in {"batched", "notified", "done", "failed"} =>
              Len(cycle'[c].searches) = Len(cycle'[c].keywordConfigs)]_vars

\* a cycle has searched for both keywords of the list it read, with the
\* watermark it read, after the stored list and watermark were changed
C20_Witness ==
  \E c \in Cycles :
    /\ Len(cycle[c].searches) = 2
    /\ Len(GetKeywords(kv)) = 1
    /\ HasWatermark(kv)
    /\ Watermark(kv) # cycle[c].lastCheck
    /\ cycle[c].searches[2].ok
    /\ cycle[c].searches[2].query = Str("a")
    /\ cycle[c].searches[2].since = cycle[c].lastCheck

\* the response of request r is an error payload for an add whose keyword
\* is empty after trim and lowercase
EmptyKeywordResponse(r) ==
  /\ req[r].pc = "done"
  /\ req[r].op = "add"
  /\ req[r].normalized = <<>>
  /\ req[r].error # "none"

\* C21: POST /keywords with a keyword that normalizes to empty is answered
\* with a structured JSON error whose HTTP status is a client error (4xx),
\* distinct from the 500 used for unhandled errors.
C21_EmptyKeywordIsClientError ==
  \A r \in Requests :
    EmptyKeywordResponse(r) =>
      /\ req[r].status >= 400
      /\ req[r].status <= 499
      /\ req[r].status # 500

====
